---- MODULE Spec2Model ----
(***************************************************************************)
(* SimpleNavApp (src/src/index.ts, lines 1-245): the per-session polling   *)
(* loop, the status fetcher's validation, the card cycle and the text      *)
(* animation.                                                              *)
(*                                                                         *)
(* JavaScript runs each callback to its next await without interruption,   *)
(* so an action of this model is one such run: from the resumption of an   *)
(* await (a timer firing, the fetch settling, a host callback arriving) to *)
(* the next await or return.                                               *)
(*                                                                         *)
(* Numbers are held in tenths (the value 10 is 100), so that fractional    *)
(* payload values and the rounding the code does are representable.        *)
(*                                                                         *)
(* Three machines share the module. Spec is the session loop controller:   *)
(* the host may call onSession and onStop for any sessionId in any order,  *)
(* and a call of animateHackerText is one position of a loop. SpecCycle is *)
(* the same machine with fewer sessions and more payloads. SpecAnim is one *)
(* call of animateHackerText, character by character. The display sink     *)
(* (session.layouts.showTextWall) is taken to return normally.             *)
(***************************************************************************)
EXTENDS Integers, Sequences, FiniteSets, TLC

\* ------------------------------------------------------------------ bounds

\* onSession invocations in one run of the controller specification.
MaxLoops == 2

\* onSession invocations in one run of the card-cycle specification.
MaxCycleLoops == 1

\* Longest text handed to animateHackerText in the animation specification.
MaxLen == 2

\* etaSeconds of the payloads whose card texts are computed: every whole
\* number of seconds up to this one.
MaxEtaSeconds == 61

\* ------------------------------------------------------- program constants

alertBounceCount == 3

flickerDurationMs == 1200

flickerSleepMs == 60

holdDurationMs == 1200

\* ------------------------------------------------------------- JSON values

\* A JSON value with the result of JavaScript's typeof in t. A field that is
\* missing from the payload reads as undefined.
JNum(n) == [t |-> "number", n |-> n, s |-> "", b |-> FALSE]

JStr(s) == [t |-> "string", n |-> 0, s |-> s, b |-> FALSE]

JBool(b) == [t |-> "boolean", n |-> 0, s |-> "", b |-> b]

JUndef == [t |-> "undefined", n |-> 0, s |-> "", b |-> FALSE]

typeof(v) == v.t

\* The NextAction union of the source.
NextActions == {"turn-left", "turn-right", "u-turn", "straight", "arrived"}

Payload(dg, dl, dn, na, eta, sp) ==
  [danger |-> dg, distanceToLocationMeters |-> dl,
   distanceToNextActionMeters |-> dn, nextAction |-> na,
   etaSeconds |-> eta, speedKph |-> sp]

\* The value of `nav` outside a tick's try block.
NoNav == Payload(JUndef, JUndef, JUndef, JUndef, JUndef, JUndef)

\* A settled fetch: net is "reject" when safeFetch rejects, ok is resp.ok,
\* parses is whether resp.json() resolves, json is the parsed body.
Response(net, ok, parses, json) ==
  [net |-> net, ok |-> ok, parses |-> parses, json |-> json]

\* ---------------------------------------------------------- fetchNavStatus

\* The condition of the if at lines 131-138.
InvalidPayload(json) ==
  \/ typeof(json.speedKph) # "number"
  \/ typeof(json.etaSeconds) # "number"
  \/ typeof(json.distanceToNextActionMeters) # "number"
  \/ typeof(json.distanceToLocationMeters) # "number"
  \/ typeof(json.nextAction) # "string"
  \/ typeof(json.danger) # "boolean"

\* Whether fetchNavStatus throws (rejects) on this response.
fetchNavStatusThrows(resp) ==
  \/ resp.net = "reject"
  \/ ~resp.ok
  \/ ~resp.parses
  \/ InvalidPayload(resp.json)

\* ------------------------------------------------------------------ cycleUI

\* The three entries of dashboardTexts, in order.
dashboardCards == <<"speed", "eta", "remaining">>

\* The condition of the for at lines 167-171.
DangerLoopCond(i) == i < alertBounceCount

ArrivalCondMutant(n) == n.distanceToLocationMeters.n <= 10 * 10

\* The condition of the if at line 182 (10 metres, in tenths).
ArrivalCond(n) == n.distanceToLocationMeters.n < 10 * 10

\* ----------------------------------------------------------------- inputs

SessionIds == {"s1", "s2"}

\* Loop 1 is the first onSession invocation, loop 2 the second, and so on.
Loops == 1..MaxLoops

GoodFar == Payload(JBool(FALSE), JNum(5000), JNum(1200), JStr("turn-left"),
                   JNum(6000), JNum(420))

GoodNearDanger == Payload(JBool(TRUE), JNum(50), JNum(0), JStr("arrived"),
                          JNum(0), JNum(0))

\* Payloads that differ in the fields cycleUI branches on: danger, and the
\* remaining distance around the 10 m threshold (9.9, 10, 10.1, 500), and
\* payloads outside the ranges of the data model (a negative ETA, a negative
\* distance, an action that is not a NextAction).
CyclePayloads ==
  { Payload(JBool(dg), JNum(dl), JNum(1200), JStr("turn-left"), JNum(6000),
            JNum(420)) : dg \in BOOLEAN, dl \in {0, 99, 100, 101, 5000} }
  \cup { GoodNearDanger,
         Payload(JBool(FALSE), JNum(5000), JNum(1200), JStr("turn-left"),
                 JNum(-600), JNum(420)),
         Payload(JBool(FALSE), JNum(-10), JNum(1200), JStr("straight"),
                 JNum(6000), JNum(420)),
         Payload(JBool(FALSE), JNum(5000), JNum(1200), JStr("fly"),
                 JNum(6000), JNum(420)) }

\* Payloads with a field missing or of the wrong type.
BadPayloads ==
  { [GoodFar EXCEPT !.speedKph = JStr("42")],
    [GoodFar EXCEPT !.etaSeconds = JUndef],
    [GoodFar EXCEPT !.distanceToNextActionMeters = JBool(TRUE)],
    [GoodFar EXCEPT !.distanceToLocationMeters = JStr("500")],
    [GoodFar EXCEPT !.nextAction = JNum(10)],
    [GoodFar EXCEPT !.danger = JStr("true")],
    [GoodFar EXCEPT !.danger = JUndef] }

\* No response: the loop has no settled fetch to show.
NoResponse == Response("none", FALSE, FALSE, NoNav)

FailedResponses ==
  { Response("reject", FALSE, FALSE, NoNav),
    Response("ok", FALSE, TRUE, GoodFar),
    Response("ok", TRUE, FALSE, NoNav) }

\* What the controller specification draws a settled fetch from: the three
\* failures, a payload that takes every branch of cycleUI, and a payload
\* that fails the validation.
Responses ==
  FailedResponses
  \cup { Response("ok", TRUE, TRUE, GoodNearDanger),
         Response("ok", TRUE, TRUE, [GoodFar EXCEPT !.danger = JUndef]) }

\* What the card-cycle specification draws a settled fetch from.
CycleResponses ==
  FailedResponses
  \cup { Response("ok", TRUE, TRUE, p) : p \in CyclePayloads \cup BadPayloads }

\* A frame handed to session.layouts.showTextWall; hold tells whether the
\* options carry durationMs.
Frame(text, view, hold, ms) ==
  [text |-> text, view |-> view, hold |-> hold, durationMs |-> ms]

NoFrame == Frame(<<>>, "none", FALSE, 0)

\* ------------------------------------------------------------------ state

VARIABLES
  sessionStopper,  \* the registry: sessionId -> the loop whose `stopped` the
                   \* registered closure sets, 0 when the id has no entry
  nLoops,          \* onSession invocations so far
  sid,             \* loop -> the sessionId argument of its invocation
  stopped,         \* loop -> its `stopped` local
  pc,              \* loop -> the await it is suspended at
  idx,             \* loop -> cycleUI's position in dashboardTexts, or its i
  nav,             \* loop -> the `nav` of the tick in progress
  frame,           \* loop -> the kind of the frame its sink showed last
  rendered,        \* loop -> the animations started in the tick in progress
  stopRan,         \* loop -> onStop has run for its sessionId since it began
  lastResp,        \* loop -> the response its fetch settled with, kept until
                   \* the loop's next step
  flagAtSleep,     \* loop -> `stopped` as it was when the sleep of line 107,
                   \* which the loop is in, began
  aPhase,          \* one call of animateHackerText: where it is suspended
  aText,           \* its `text`
  aView,           \* its `view` argument
  aOut,            \* its `out`
  aElapsed,        \* Date.now() - start at the last test of line 210
  aShown,          \* the frame its sink showed last
  aTyped,          \* the texts of the typewriter frames it has shown
  aFlickers,       \* the flicker frames it has shown
  aStopAt,         \* the phase the call was suspended in when onStop set
                   \* its caller's flag, "none" if it has not
  cNav,            \* the payload cycleUI was last called with
  cTexts           \* the texts it built for its dashboard and next-action
                   \* cards

sessionVars ==
  <<sessionStopper, nLoops, sid, stopped, pc, idx, nav, frame, rendered,
    stopRan, lastResp, flagAtSleep>>

animVars ==
  <<aPhase, aText, aView, aOut, aElapsed, aShown, aTyped, aFlickers,
    aStopAt>>

textVars == <<cNav, cTexts>>

vars == <<sessionVars, animVars, textVars>>

Init ==
  /\ sessionStopper = [s \in SessionIds |-> 0]
  /\ nLoops = 0
  /\ sid = [l \in Loops |-> "none"]
  /\ stopped = [l \in Loops |-> FALSE]
  /\ pc = [l \in Loops |-> "unborn"]
  /\ idx = [l \in Loops |-> 0]
  /\ nav = [l \in Loops |-> NoNav]
  /\ frame = [l \in Loops |-> "none"]
  /\ rendered = [l \in Loops |-> <<>>]
  /\ stopRan = [l \in Loops |-> FALSE]
  /\ lastResp = [l \in Loops |-> NoResponse]
  /\ flagAtSleep = [l \in Loops |-> FALSE]
  /\ aPhase = "idle"
  /\ aText = <<>>
  /\ aView = "undefined"
  /\ aOut = <<>>
  /\ aElapsed = 0
  /\ aShown = NoFrame
  /\ aTyped = <<>>
  /\ aFlickers = 0
  /\ aStopAt = "none"
  /\ cNav = NoNav
  /\ cTexts = [dashboard |-> <<>>, next |-> <<>>]

\* ------------------------------------------------- the loop's local state

Local(l, p, i, n, f, r) ==
  /\ pc' = [pc EXCEPT ![l] = p]
  /\ idx' = [idx EXCEPT ![l] = i]
  /\ nav' = [nav EXCEPT ![l] = n]
  /\ frame' = [frame EXCEPT ![l] = f]
  /\ rendered' = [rendered EXCEPT ![l] = r]

\* A call of animateHackerText made from position p: it shows the first
\* typewriter frame and suspends in its first sleep (every text the loop
\* animates is non-empty). The character-level steps of the call are those
\* of the animation specification below; here the call is one position.
BeginAnim(l, p, i, n, card) ==
  Local(l, p, i, n, "typewriter", Append(rendered[l], card))

WhileCondMutant(l) == ~stopped[l] \/ flagAtSleep[l]

\* The condition of the while at line 99.
WhileCond(l) == ~stopped[l]

LoopTopMutant(l) ==
  IF WhileCond(l)
  THEN Local(l, "welcome", 0, NoNav, "typewriter",
             Append(rendered[l], "welcome"))
  ELSE Local(l, "done", 0, NoNav, "stable", <<>>)

\* Line 99 reached: either the next tick begins, with fetchNavStatus called
\* and safeFetch's request issued in the same run, or the loop is left and
\* onSession returns. The frame shown last is a stable one: that of the
\* welcome animation, which has just returned, or that of the tick's last
\* animation.
LoopTop(l) ==
  IF WhileCond(l)
  THEN Local(l, "fetch", 0, NoNav, "stable", <<>>)
  ELSE Local(l, "done", 0, NoNav, "stable", <<>>)

AfterTickNoWaitMutant(l) == LoopTop(l)

AfterTickMutant(l) ==
  IF stopped[l]
  THEN Local(l, "done", 0, NoNav, "stable", <<>>)
  ELSE Local(l, "pollSleep", 0, nav[l], "stable", rendered[l])

\* Line 107 reached, from the try block or from the catch block, the last
\* animation of the tick having shown its stable frame.
AfterTick(l) ==
  Local(l, "pollSleep", 0, nav[l], "stable", rendered[l])

\* Lines 181-189: the arrival card, or cycleUI returns.
ArrivalStep(l) ==
  IF ArrivalCond(nav[l])
  THEN BeginAnim(l, "arrivalAnim", 0, nav[l], "arrival")
  ELSE AfterTick(l)

\* Lines 166-179 with the loop variable at i: the next danger card, or on.
DangerStep(l, i) ==
  IF nav[l].danger.b /\ DangerLoopCond(i)
  THEN BeginAnim(l, "dangerAnim", i, nav[l], "danger")
  ELSE ArrivalStep(l)

DashboardStepMutant(l, k) ==
  IF k < Len(dashboardCards)
  THEN Local(l, "dashPause", k + 1, nav[l], "typewriter",
             Append(rendered[l], dashboardCards[k + 1]))
  ELSE BeginAnim(l, "nextAnim", 0, nav[l], "next")

\* Lines 153-163 with k dashboard cards done: the next one, or the
\* next-action card.
DashboardStep(l, k) ==
  IF k < Len(dashboardCards)
  THEN BeginAnim(l, "dashAnim", k + 1, nav[l], dashboardCards[k + 1])
  ELSE BeginAnim(l, "nextAnim", 0, nav[l], "next")

CatchMutant(l) == Local(l, "done", 0, NoNav, frame[l], rendered[l])

\* Lines 103-105: the catch block, entered from the await at line 101.
Catch(l) == BeginAnim(l, "retryAnim", 0, NoNav, "retry")

\* The observations of a step of loop l: the response r it settled with, and
\* the flag as the poll-interval sleep it enters finds it.
Observe(l, r) ==
  /\ lastResp' = [lastResp EXCEPT ![l] = r]
  /\ flagAtSleep' =
       [flagAtSleep EXCEPT
          ![l] = IF pc'[l] # "pollSleep" THEN FALSE
                 ELSE IF pc[l] # "pollSleep" THEN stopped[l]
                 ELSE @]

AnimPcs == {"welcome", "dashAnim", "nextAnim", "dangerAnim", "arrivalAnim",
            "retryAnim"}

SleepPcs == {"dashPause", "dangerPause", "pollSleep"}

\* ---------------------------------------------------------------- actions

OnSessionMutant(s, max) ==
  /\ nLoops < max
  /\ LET l == nLoops + 1 IN
       /\ nLoops' = l
       /\ sid' = [sid EXCEPT ![l] = s]
       /\ stopped' = [k \in Loops |->
                        IF k = l \/ sid[k] = s THEN FALSE ELSE stopped[k]]
       /\ sessionStopper' = [sessionStopper EXCEPT ![s] = l]
       /\ BeginAnim(l, "welcome", 0, NoNav, "welcome")
       /\ stopRan' = [stopRan EXCEPT ![l] = FALSE]
  /\ UNCHANGED <<lastResp, flagAtSleep>>
  /\ UNCHANGED <<animVars, textVars>>

\* onSession(session, s, userId), lines 83-96, invoked by the host: it runs
\* to the first await inside animateHackerText.
OnSession(s, max) ==
  /\ nLoops < max
  /\ LET l == nLoops + 1 IN
       /\ nLoops' = l
       /\ sid' = [sid EXCEPT ![l] = s]
       /\ stopped' = [stopped EXCEPT ![l] = FALSE]
       /\ sessionStopper' = [sessionStopper EXCEPT ![s] = l]
       /\ BeginAnim(l, "welcome", 0, NoNav, "welcome")
       /\ stopRan' = [stopRan EXCEPT ![l] = FALSE]
  /\ UNCHANGED <<lastResp, flagAtSleep>>
  /\ UNCHANGED <<animVars, textVars>>

OnStopMutant(s) ==
  /\ sessionStopper[s] # 0
  /\ stopped' = [l \in Loops |-> stopped[l] \/ pc[l] # "unborn"]
  /\ sessionStopper' = [t \in SessionIds |-> 0]
  /\ stopRan' = [l \in Loops |-> stopRan[l] \/ pc[l] # "unborn"]
  /\ UNCHANGED <<nLoops, sid, pc, idx, nav, frame, rendered, lastResp,
                 flagAtSleep>>
  /\ UNCHANGED <<animVars, textVars>>

OnStopNoEntryMutant(s) ==
  /\ LET stopper == sessionStopper[s] IN
       IF stopper # 0
       THEN /\ stopped' = [stopped EXCEPT ![stopper] = TRUE]
            /\ sessionStopper' = [sessionStopper EXCEPT ![s] = 0]
       ELSE /\ stopped' = [l \in Loops |->
                             stopped[l] \/ (pc[l] # "unborn" /\ sid[l] = s)]
            /\ UNCHANGED sessionStopper
  /\ stopRan' = [l \in Loops |->
                   stopRan[l] \/ (pc[l] # "unborn" /\ sid[l] = s)]
  /\ UNCHANGED <<nLoops, sid, pc, idx, nav, frame, rendered, lastResp,
                 flagAtSleep>>
  /\ UNCHANGED <<animVars, textVars>>

\* onStop(s, userId, reason), lines 113-124.
OnStop(s) ==
  /\ LET stopper == sessionStopper[s] IN
       IF stopper # 0
       THEN /\ stopped' = [stopped EXCEPT ![stopper] = TRUE]
            /\ sessionStopper' = [sessionStopper EXCEPT ![s] = 0]
       ELSE UNCHANGED <<stopped, sessionStopper>>
  /\ stopRan' = [l \in Loops |->
                   stopRan[l] \/ (pc[l] # "unborn" /\ sid[l] = s)]
  /\ UNCHANGED <<nLoops, sid, pc, idx, nav, frame, rendered, lastResp,
                 flagAtSleep>>
  /\ UNCHANGED <<animVars, textVars>>

\* animateHackerText, lines 199-232: the remaining typewriter and flicker
\* sleeps have ended, the stable frame is shown and the call returns; the
\* caller runs on to its next await.
AnimReturn(l) ==
  /\ pc[l] \in AnimPcs
  /\ CASE pc[l] = "welcome" -> LoopTop(l)
       [] pc[l] = "dashAnim" ->
            Local(l, "dashPause", idx[l], nav[l], "stable", rendered[l])
       [] pc[l] = "nextAnim" -> DangerStep(l, 0)
       [] pc[l] = "dangerAnim" ->
            Local(l, "dangerPause", idx[l], nav[l], "stable", rendered[l])
       [] pc[l] = "arrivalAnim" -> AfterTick(l)
       [] pc[l] = "retryAnim" -> AfterTick(l)
  /\ Observe(l, NoResponse)
  /\ UNCHANGED <<sessionStopper, nLoops, sid, stopped, stopRan>>
  /\ UNCHANGED <<animVars, textVars>>

\* A sleep of cycleUI or of the loop ends: lines 155, 177 and 107.
SleepElapsed(l) ==
  /\ pc[l] \in SleepPcs
  /\ CASE pc[l] = "dashPause" -> DashboardStep(l, idx[l])
       [] pc[l] = "dangerPause" -> DangerStep(l, idx[l] + 1)
       [] pc[l] = "pollSleep" -> LoopTop(l)
  /\ Observe(l, NoResponse)
  /\ UNCHANGED <<sessionStopper, nLoops, sid, stopped, stopRan>>
  /\ UNCHANGED <<animVars, textVars>>

\* The await at line 101 settles with a response of R: fetchNavStatus
\* returns the payload and cycleUI starts (lines 147-154), or it throws into
\* the catch.
FetchSettled(l, R) ==
  /\ pc[l] = "fetch"
  /\ \E r \in R :
       /\ IF fetchNavStatusThrows(r)
          THEN Catch(l)
          ELSE BeginAnim(l, "dashAnim", 1, r.json, dashboardCards[1])
       /\ Observe(l, r)
  /\ UNCHANGED <<sessionStopper, nLoops, sid, stopped, stopRan>>
  /\ UNCHANGED <<animVars, textVars>>

\* A step of loop l with the fetch drawn from R.
LoopStep(l, R) == AnimReturn(l) \/ SleepElapsed(l) \/ FetchSettled(l, R)

Next ==
  \/ \E s \in SessionIds : OnSession(s, MaxLoops)
  \/ \E s \in SessionIds : OnStop(s)
  \/ \E l \in Loops : AnimReturn(l)
  \/ \E l \in Loops : SleepElapsed(l)
  \/ \E l \in Loops : FetchSettled(l, Responses)

Spec == Init /\ [][Next]_vars

NextCycle ==
  \/ \E s \in SessionIds : OnSession(s, MaxCycleLoops)
  \/ \E s \in SessionIds : OnStop(s)
  \/ \E l \in Loops : AnimReturn(l)
  \/ \E l \in Loops : SleepElapsed(l)
  \/ \E l \in Loops : FetchSettled(l, CycleResponses)

SpecCycle == Init /\ [][NextCycle]_vars

\* The controller under the scheduling the event loop gives: a timer that is
\* due fires, and a fetch that is pending settles.
FairSpec == Spec /\ \A l \in Loops : WF_vars(LoopStep(l, Responses))

\* ------------------------------------------------------ a sink that throws

\* session.layouts.showTextWall throws while loop l is inside a call of
\* animateHackerText (lines 202, 220 and 231 are its calls; none is guarded
\* inside animateHackerText). The error leaves animateHackerText and reaches
\* the caller's await:
\*   - line 96, the welcome animation, is outside every try: onSession
\*     rejects and the loop is never entered;
\*   - line 102, cycleUI, is inside the try of lines 100-106: the catch block
\*     runs and calls animateHackerText for the retry notice, whose first
\*     frame is shown in the same run and may throw as well;
\*   - line 105, the retry notice, is inside the catch block, which no try
\*     encloses: onSession rejects.
\* An onSession that rejected is at "failed"; nothing of lines 83-111 removes
\* its registry entry.
Rejected(l) == Local(l, "failed", 0, NoNav, frame[l], rendered[l])

RenderThrows(l) ==
  /\ pc[l] \in AnimPcs
  /\ IF pc[l] \in {"welcome", "retryAnim"}
     THEN Rejected(l)
     ELSE \E again \in BOOLEAN : IF again THEN Rejected(l) ELSE Catch(l)
  /\ Observe(l, NoResponse)
  /\ UNCHANGED <<sessionStopper, nLoops, sid, stopped, stopRan>>
  /\ UNCHANGED <<animVars, textVars>>

NextFault ==
  \/ \E s \in SessionIds : OnSession(s, MaxLoops)
  \/ \E s \in SessionIds : OnStop(s)
  \/ \E l \in Loops : AnimReturn(l)
  \/ \E l \in Loops : SleepElapsed(l)
  \/ \E l \in Loops : FetchSettled(l, Responses)
  \/ \E l \in Loops : RenderThrows(l)

\* The controller with a sink that may throw.
SpecFault == Init /\ [][NextFault]_vars

\* -------------------------------------------------------- animateHackerText

\* mentraosSettings.animation.flickerCharset, one character per entry.
flickerCharset ==
  << "a", "b", "c", "d", "e", "f", "g", "h", "i", "j", "k", "l", "m", "n",
     "o", "p", "q", "r", "s", "t", "u", "v", "w", "x", "y", "z", "0", "1",
     "2", "3", "4", "5", "6", "7", "8", "9", "<", ">", "/", "\\", "|", "{",
     "}", "[", "]", "(", ")", "!", "@", "#", "$", "%", "^", "&", "*" >>

\* Characters of the texts: one that is in the flicker charset, one that is
\* not.
Chars == {"a", "Z"}

\* The texts of length 0..MaxLen.
Texts == UNION { [1..n -> Chars] : n \in 0..MaxLen }

\* The `view` argument: absent, ViewType.MAIN or ViewType.DASHBOARD.
Views == {"undefined", "main", "dashboard"}

\* Results of Math.random(), in hundredths: 0, the threshold 0.2 itself, and
\* 0.99.
RandomDraws == {0, 20, 99}

\* Results of the Math.random() of lines 218-221, which picks the index into the
\* charset: those that pick its first and its last character.
IndexDraws == {0, 99}

\* How long after its due time of ms a timer fires: on time, or late by more
\* than the flicker lasts.
Delays(ms) == {ms, ms + flickerDurationMs}

\* Line 197: view || this.mentraosSettings.defaultView.
actualView(view) == IF view = "undefined" THEN "main" ELSE view

\* Lines 216-223 for one character, with the two draws of Math.random().
FlickerChar(ch, r1, r2) ==
  IF r1 * 10 < 2 * 100
  THEN flickerCharset[((r2 * Len(flickerCharset)) \div 100) + 1]
  ELSE ch

\* What the map callback of lines 215-223 can return for the character ch.
FlickerChars(ch) ==
  { FlickerChar(ch, r1, r2) : r1 \in RandomDraws, r2 \in IndexDraws }

FlickerFramesMutant(text) ==
  LET prev == IF Len(aShown.text) = Len(text) THEN aShown.text ELSE text IN
    { s \in [1..Len(text) ->
               UNION { FlickerChars(prev[i]) : i \in 1..Len(text) }] :
        \A i \in 1..Len(text) : s[i] \in FlickerChars(prev[i]) }

\* Lines 213-225: the strings s that one flicker tick can build from text,
\* the callback drawing afresh for every character of text.
FlickerFrames(text) ==
  { s \in [1..Len(text) -> UNION { FlickerChars(text[i]) : i \in 1..Len(text) }] :
      \A i \in 1..Len(text) : s[i] \in FlickerChars(text[i]) }

\* The condition of the while at lines 209-212.
FlickerCond(elapsed) == elapsed < flickerDurationMs

FinalFrameMutant(text, out, view) ==
  Frame(aShown.text, actualView(view), TRUE, holdDurationMs)

\* Line 231: the final stable frame.
FinalFrame(text, out, view) ==
  Frame(text, actualView(view), TRUE, holdDurationMs)

\* Lines 208-232 entered with the clock at `elapsed` after start: one more
\* flicker frame and the sleep of line 227, or the stable frame and return.
FlickerOrFinish(elapsed) ==
  IF FlickerCond(elapsed)
  THEN /\ \E s \in FlickerFrames(aText) :
            aShown' = Frame(s, actualView(aView), FALSE, 0)
       /\ aPhase' = "flicker"
       /\ aElapsed' = elapsed
       /\ aFlickers' = aFlickers + 1
       /\ UNCHANGED <<aText, aView, aOut, aTyped>>
  ELSE /\ aShown' = FinalFrame(aText, aOut, aView)
       /\ aPhase' = "returned"
       /\ aElapsed' = 0
       /\ UNCHANGED <<aText, aView, aOut, aTyped, aFlickers>>

TypewriterFrameMutant(out, text, i) == Append(out, text[Len(text)])

\* Line 202: out += text[i], with i counted from 1.
TypewriterFrame(out, text, i) == Append(out, text[i])

\* animateHackerText(session, t, v) is called, lines 192-204: it runs to its
\* first await.
AnimCall(t, v) ==
  /\ aPhase \in {"idle", "returned"}
  /\ IF Len(t) > 0
     THEN LET out == TypewriterFrame(<<>>, t, 1) IN
            /\ aText' = t
            /\ aView' = v
            /\ aOut' = out
            /\ aShown' = Frame(out, actualView(v), FALSE, 0)
            /\ aTyped' = <<out>>
            /\ aPhase' = "typewriter"
            /\ aElapsed' = 0
            /\ aFlickers' = 0
     ELSE /\ aText' = t
          /\ aView' = v
          /\ aOut' = <<>>
          /\ aTyped' = <<>>
          /\ \E s \in FlickerFrames(t) :
               aShown' = Frame(s, actualView(v), FALSE, 0)
          /\ aPhase' = "flicker"
          /\ aElapsed' = 0
          /\ aFlickers' = 1
  /\ aStopAt' = "none"
  /\ UNCHANGED <<sessionVars, textVars>>

TypewriterCondMutant(out, text) == Len(out) < Len(text) /\ aStopAt = "none"

\* The condition of the for at line 201, i being out.length: it reads
\* nothing but i and text.
TypewriterCond(out, text) == Len(out) < Len(text)

\* The sleep of line 204 ends: the next typewriter frame, or the flicker
\* loop is entered with start = Date.now().
TypewriterStep ==
  /\ aPhase = "typewriter"
  /\ IF TypewriterCond(aOut, aText)
     THEN LET out == TypewriterFrame(aOut, aText, Len(aOut) + 1) IN
            /\ aOut' = out
            /\ aShown' = Frame(out, actualView(aView), FALSE, 0)
            /\ aTyped' = Append(aTyped, out)
            /\ UNCHANGED <<aPhase, aText, aView, aElapsed, aFlickers>>
     ELSE FlickerOrFinish(0)
  /\ UNCHANGED <<aStopAt, sessionVars, textVars>>

\* The sleep of line 227 ends, d milliseconds after it began.
FlickerStep ==
  /\ aPhase = "flicker"
  /\ \E d \in Delays(flickerSleepMs) : FlickerOrFinish(aElapsed + d)
  /\ UNCHANGED <<aStopAt, sessionVars, textVars>>

\* onStop runs for the caller's session while the call is suspended in a
\* sleep (lines 204, 227): the stopper sets the caller's `stopped` (lines
\* 91-93, 116-118), which animateHackerText has no access to. Nothing of the
\* call changes; the phase is recorded.
AnimStop ==
  /\ aPhase \in {"typewriter", "flicker"}
  /\ aStopAt = "none"
  /\ aStopAt' = aPhase
  /\ UNCHANGED <<aPhase, aText, aView, aOut, aElapsed, aShown, aTyped,
                 aFlickers>>
  /\ UNCHANGED <<sessionVars, textVars>>

NextAnim ==
  \/ \E t \in Texts, v \in Views : AnimCall(t, v)
  \/ TypewriterStep
  \/ FlickerStep
  \/ AnimStop

SpecAnim == Init /\ [][NextAnim]_vars

\* --------------------------------------------------------- the card texts

\* Strings are sequences of one-character strings.
Digits == <<"0", "1", "2", "3", "4", "5", "6", "7", "8", "9">>

LowerCase ==
  <<"a", "b", "c", "d", "e", "f", "g", "h", "i", "j", "k", "l", "m",
    "n", "o", "p", "q", "r", "s", "t", "u", "v", "w", "x", "y", "z">>

UpperCase ==
  <<"A", "B", "C", "D", "E", "F", "G", "H", "I", "J", "K", "L", "M",
    "N", "O", "P", "Q", "R", "S", "T", "U", "V", "W", "X", "Y", "Z">>

\* The characters of the values of nextAction.
CharsOf(s) ==
  CASE s = "turn-left" -> <<"t", "u", "r", "n", "-", "l", "e", "f", "t">>
    [] s = "turn-right" -> <<"t", "u", "r", "n", "-", "r", "i", "g", "h", "t">>
    [] s = "u-turn" -> <<"u", "-", "t", "u", "r", "n">>
    [] s = "straight" -> <<"s", "t", "r", "a", "i", "g", "h", "t">>
    [] s = "arrived" -> <<"a", "r", "r", "i", "v", "e", "d">>

\* mentraosSettings.dashboard: speedUnit, etaUnit, distanceUnit.
speedUnit == <<"k", "p", "h">>

etaUnit == <<"m", "i", "n">>

distanceUnit == <<"m">>

\* The decimal digits of a natural number.
RECURSIVE NatToString(_)
NatToString(n) ==
  IF n < 10 THEN <<Digits[n + 1]>>
  ELSE NatToString(n \div 10) \o <<Digits[(n % 10) + 1]>>

\* `${k}` for an integer k, as a template literal converts it (-0 is "0").
NumberToString(k) ==
  IF k < 0 THEN <<"-">> \o NatToString(-k) ELSE NatToString(k)

MathRoundMutant(n) == IF n >= 0 THEN n \div 10 ELSE -((-n) \div 10)

\* Math.round(x) for x = n / 10: the nearest integer, a half going up.
MathRound(n) == (n + 5) \div 10

MathCeilMutant(n, d) == (2 * n + 10 * d) \div (20 * d)

\* Math.ceil(x / d) for x = n / 10 and an integer d > 0.
MathCeil(n, d) == -((-n) \div (10 * d))

\* x.toFixed(1) for x = n / 10: no digit is lost, so nothing is rounded.
toFixed1(n) ==
  LET a == IF n < 0 THEN -n ELSE n IN
    (IF n < 0 THEN <<"-">> ELSE <<>>)
      \o NatToString(a \div 10) \o <<".">> \o <<Digits[(a % 10) + 1]>>

\* s.replace("-", " "): a string pattern replaces the first occurrence only.
RECURSIVE ReplaceFirstHyphen(_)
ReplaceFirstHyphen(s) ==
  IF s = <<>> THEN <<>>
  ELSE IF Head(s) = "-" THEN <<" ">> \o Tail(s)
  ELSE <<Head(s)>> \o ReplaceFirstHyphen(Tail(s))

\* s.toUpperCase().
toUpperCase(s) ==
  [i \in 1..Len(s) |->
     IF \E j \in 1..Len(LowerCase) : LowerCase[j] = s[i]
     THEN UpperCase[CHOOSE j \in 1..Len(LowerCase) : LowerCase[j] = s[i]]
     ELSE s[i]]

\* Lines 147-151: dashboardTexts.
dashboardTexts(n) ==
  << <<"S", "p", "e", "e", "d", ":", " ">> \o toFixed1(n.speedKph.n) \o <<" ">> \o speedUnit,
     <<"E", "T", "A", ":", " ">> \o NumberToString(MathCeil(n.etaSeconds.n, 60))
       \o <<" ">> \o etaUnit,
     <<"R", "e", "m", "a", "i", "n", "i", "n", "g", ":", " ">>
       \o NumberToString(MathRound(n.distanceToLocationMeters.n))
       \o <<" ">> \o distanceUnit >>

\* Lines 159-162: nextText.
nextText(n) ==
  IF n.nextAction.s = "arrived"
  THEN <<"A", "r", "r", "i", "v", "e", "d">>
  ELSE toUpperCase(ReplaceFirstHyphen(CharsOf(n.nextAction.s)))
         \o <<" ", "i", "n", " ">>
         \o NumberToString(MathRound(n.distanceToNextActionMeters.n))
         \o <<" ">> \o distanceUnit

\* Line 163: the text of the next-action card.
nextCardText(n) == <<"N", "e", "x", "t", ":", " ">> \o nextText(n)

\* etaSeconds of the payloads the texts are computed for, in tenths of a
\* second: every whole second up to the bound, ten minutes, and values
\* between whole seconds.
EtaInputs ==
  {10 * s : s \in 0..MaxEtaSeconds} \cup {6000, 5, 595, 605}

\* Distances in tenths of a metre: whole, below a half, a half, above a half,
\* below zero.
DistanceInputs == {0, 4, 5, 95, 1196, 1200, 1204, 1205, -15}

TextPayloads ==
  { Payload(JBool(FALSE), JNum(dl), JNum(dn), JStr(na), JNum(eta), JNum(sp)) :
      dl \in {95, 1204}, dn \in DistanceInputs, na \in NextActions,
      eta \in EtaInputs, sp \in {0, 423} }

\* cycleUI has been called with a payload of TextPayloads and has built no
\* text yet.
InitText ==
  /\ cNav \in TextPayloads
  /\ cTexts = [dashboard |-> <<>>, next |-> <<>>]
  /\ sessionStopper = [s \in SessionIds |-> 0]
  /\ nLoops = 0
  /\ sid = [l \in Loops |-> "none"]
  /\ stopped = [l \in Loops |-> FALSE]
  /\ pc = [l \in Loops |-> "unborn"]
  /\ idx = [l \in Loops |-> 0]
  /\ nav = [l \in Loops |-> NoNav]
  /\ frame = [l \in Loops |-> "none"]
  /\ rendered = [l \in Loops |-> <<>>]
  /\ stopRan = [l \in Loops |-> FALSE]
  /\ lastResp = [l \in Loops |-> NoResponse]
  /\ flagAtSleep = [l \in Loops |-> FALSE]
  /\ aPhase = "idle"
  /\ aText = <<>>
  /\ aView = "undefined"
  /\ aOut = <<>>
  /\ aElapsed = 0
  /\ aShown = NoFrame
  /\ aTyped = <<>>
  /\ aFlickers = 0
  /\ aStopAt = "none"

\* cycleUI builds the texts of its cards from its argument, lines 147-162.
ComposeTexts ==
  /\ cTexts.next = <<>>
  /\ cTexts' = [dashboard |-> dashboardTexts(cNav),
                next |-> nextCardText(cNav)]
  /\ UNCHANGED <<cNav, sessionVars, animVars>>

NextText == ComposeTexts

SpecText == InitText /\ [][NextText]_vars

\* ------------------------------------------------------------- properties

\* A loop that onSession has started and that has not returned.
Live(l) == pc[l] \notin {"unborn", "done", "failed"}

\* Loop l issues a request in this step (fetchNavStatus is called).
FetchInitiated(l) == pc[l] # "fetch" /\ pc'[l] = "fetch"

\* Loop l's sink is shown a frame in this step.
FrameEmitted(l) == frame'[l] # frame[l] \/ rendered'[l] # rendered[l]

\* The positions inside a tick's try block or catch block, past the fetch.
TickPcs == {"dashAnim", "dashPause", "nextAnim", "dangerAnim", "dangerPause",
            "arrivalAnim", "retryAnim"}

\* The composer cycle or the retry notice of loop l's tick finishes in this
\* step.
TickBodyEnds(l) == pc[l] \in TickPcs /\ pc'[l] \notin TickPcs

\* C1: once onStop has run for a session's id, the loop onSession started
\* for it initiates no further fetch, whatever it was doing when the stop
\* arrived; and a loop that has left at its loop check shows no further
\* frame.
C1_NoFetchAfterStop ==
  [][\A l \in Loops :
       /\ stopRan[l] => ~FetchInitiated(l)
       /\ pc[l] = "done" => ~FrameEmitted(l)]_vars

\* C2: after onStop for a session's id, the loop started for that id
\* eventually returns, given that fetches settle and sleeps end.
C2_StopLeadsToExit == \A l \in Loops : stopRan[l] ~> (pc[l] = "done")

\* What the spec calls a failed fetch: no response, a non-success response,
\* a body that is no JSON, or a payload with a field of the wrong type.
FailedFetch(r) ==
  \/ r.net = "reject"
  \/ ~r.ok
  \/ ~r.parses
  \/ \E f \in {"speedKph", "etaSeconds", "distanceToNextActionMeters",
               "distanceToLocationMeters"} : r.json[f].t # "number"
  \/ r.json.nextAction.t # "string"
  \/ r.json.danger.t # "boolean"

\* C3: a failed fetch starts exactly one retry notice and no card; when the
\* notice is over the loop sleeps the poll interval; when that sleep ends an
\* unstopped loop begins the next tick; and a loop returns only when its
\* flag is set, however many fetches have failed.
C3_FailedTickRetries ==
  [][\A l \in Loops :
       /\ (pc[l] = "fetch" /\ pc'[l] # "fetch" /\ FailedFetch(lastResp'[l]))
            => /\ pc'[l] = "retryAnim"
               /\ rendered'[l] = <<"retry">>
               /\ nav'[l] = NoNav
       /\ (pc[l] = "retryAnim" /\ pc'[l] # "retryAnim")
            => /\ pc'[l] = "pollSleep"
               /\ rendered'[l] = <<"retry">>
       /\ (pc[l] = "pollSleep" /\ nav[l] = NoNav /\ pc'[l] # "pollSleep"
             /\ ~stopped[l])
            => FetchInitiated(l)
       /\ (pc[l] # "done" /\ pc'[l] = "done") => stopped[l]]_vars

\* A loop that is not stopped sleeps the poll interval after a failed tick
\* in which it showed the retry notice and nothing else.
C3_Witness ==
  \E l \in Loops :
    /\ pc[l] = "pollSleep"
    /\ nav[l] = NoNav
    /\ rendered[l] = <<"retry">>
    /\ ~stopped[l]

\* C4: at most one loop that has not returned exists per sessionId.
C4_OneLoopPerSession ==
  \A s \in SessionIds :
    Cardinality({l \in Loops : Live(l) /\ sid[l] = s}) <= 1

\* C5: a start for a sessionId that has a registry entry does not replace
\* the entry and does not start a second loop.
C5_SecondStartRejected ==
  [][\A s \in SessionIds :
       sessionStopper[s] # 0
         => /\ sessionStopper'[s] \in {sessionStopper[s], 0}
            /\ \A l \in Loops :
                 (pc[l] = "unborn" /\ pc'[l] # "unborn") => sid'[l] # s]_vars

\* The cards of one composer cycle for payload n, as the spec lists them.
ExpectedCards(n) ==
  <<"speed", "eta", "remaining", "next">>
    \o (IF n.danger.b THEN <<"danger", "danger", "danger">> ELSE <<>>)
    \o (IF n.distanceToLocationMeters.n < 100 THEN <<"arrival">> ELSE <<>>)

IsPrefix(p, q) == Len(p) <= Len(q) /\ p = SubSeq(q, 1, Len(p))

\* C6: the cards of a composer cycle are, in order, the three dashboard
\* cards, the next-action card, three danger cards iff danger, and the
\* arrival card iff the remaining distance is below 10 m.
C6_CardSequence ==
  \A l \in Loops :
    nav[l] # NoNav
      => /\ IsPrefix(rendered[l], ExpectedCards(nav[l]))
         /\ pc[l] = "pollSleep" => rendered[l] = ExpectedCards(nav[l])

\* A cycle has finished for a payload with danger set and a remaining
\* distance of exactly 10 m: seven cards, no arrival card.
C6_Witness ==
  \E l \in Loops :
    /\ pc[l] = "pollSleep"
    /\ nav[l].danger.b
    /\ nav[l].distanceToLocationMeters.n = 100
    /\ Len(rendered[l]) = 7

\* The data model's types and ranges.
InRange(n) ==
  /\ \A f \in {"speedKph", "etaSeconds", "distanceToNextActionMeters",
               "distanceToLocationMeters"} :
       n[f].t = "number" /\ n[f].n >= 0
  /\ n.danger.t = "boolean"
  /\ n.nextAction.t = "string" /\ n.nextAction.s \in NextActions

\* C7: the composer cycle runs only on a payload whose every field has the
\* type and the range of the data model.
C7_ComposerInputInRange ==
  \A l \in Loops : nav[l] # NoNav => InRange(nav[l])

\* C8: the last frame of a call of animateHackerText has the call's text and
\* a hold duration, and the call shows no frame after it.
C8_LastFrameIsText ==
  aPhase = "returned"
    => /\ aShown.text = aText
       /\ aShown.hold
       /\ aShown.durationMs > 0
       /\ ~ENABLED TypewriterStep
       /\ ~ENABLED FlickerStep

\* A call has returned for a text of two different characters after two or
\* more flicker frames.
C8_Witness ==
  /\ aPhase = "returned"
  /\ aText = <<"Z", "a">>
  /\ aFlickers >= 2

\* C9: the typewriter frames are the prefixes of the text of length 1, 2,
\* ..., in this order, all L of them before the first flicker frame.
C9_TypewriterPrefixes ==
  /\ Len(aTyped) <= Len(aText)
  /\ \A i \in 1..Len(aTyped) :
       /\ Len(aTyped[i]) = i
       /\ aTyped[i] = SubSeq(aText, 1, i)
  /\ aFlickers > 0 => Len(aTyped) = Len(aText)
  /\ aPhase = "typewriter" => /\ aFlickers = 0
                              /\ aShown.text = aTyped[Len(aTyped)]

\* The typewriter phase of a text of two different characters is over and
\* the flicker has begun.
C9_Witness ==
  /\ aPhase = "flicker"
  /\ aText = <<"a", "Z">>
  /\ aTyped = << <<"a">>, <<"a", "Z">> >>

\* C10, as the spec has it: a loop whose flag is set when its tick's cycle
\* or notice finishes returns without sleeping the poll interval.
C10_NoSleepWhenStopped ==
  [][\A l \in Loops :
       (TickBodyEnds(l) /\ stopped[l]) => pc'[l] = "done"]_vars

\* C10, amended: the flag is read at the while condition only. A tick's
\* cycle or notice is always followed by the poll-interval sleep, and the
\* end of that sleep by the return of a stopped loop or by the next fetch.
C10_FlagReadAtLoopTopOnly ==
  [][\A l \in Loops :
       /\ TickBodyEnds(l) => pc'[l] = "pollSleep"
       /\ (pc[l] = "pollSleep" /\ pc'[l] # "pollSleep")
            => pc'[l] = IF stopped[l] THEN "done" ELSE "fetch"]_vars

\* A loop sleeps the poll interval although its flag was set when the sleep
\* began.
C10_Witness ==
  \E l \in Loops : pc[l] = "pollSleep" /\ flagAtSleep[l]

\* onSession is invoked for loop l in this step.
Started(l) == pc[l] = "unborn" /\ pc'[l] # "unborn"

\* C11: a start registers the flag of the loop it creates and begins the
\* welcome animation, the only card of that loop so far; the loop's first
\* fetch is initiated by the step in which the welcome animation returns,
\* its stable frame shown and no animation in flight; every later fetch
\* starts from the poll-interval sleep; and the welcome animation is entered
\* by the start alone, never again while the loop runs.
C11_WelcomeOnceThenLoop ==
  [][\A l \in Loops :
       /\ Started(l) =>
            /\ pc'[l] = "welcome"
            /\ rendered'[l] = <<"welcome">>
            /\ sessionStopper'[sid'[l]] = l
            /\ ~stopped'[l]
       /\ FetchInitiated(l) =>
            /\ pc[l] \in {"welcome", "pollSleep"}
            /\ frame'[l] = "stable"
            /\ rendered'[l] = <<>>
       /\ pc[l] = "welcome" =>
            /\ frame[l] = "typewriter"
            /\ rendered[l] = <<"welcome">>
       /\ pc'[l] = "welcome" => pc[l] \in {"unborn", "welcome"}
       /\ (pc'[l] # "welcome" /\ pc[l] # "unborn") =>
            \A k \in 1..Len(rendered'[l]) : rendered'[l][k] # "welcome"]_vars

\* The welcome animation of a registered loop has returned and the loop's
\* fetch is pending, while another loop is still inside its own welcome.
C11_Witness ==
  \E l, k \in Loops :
    /\ pc[l] = "fetch" /\ frame[l] = "stable" /\ sessionStopper[sid[l]] = l
    /\ pc[k] = "welcome"

\* C12: an onStop that runs while a call of animateHackerText is suspended
\* does not cut the call short: the call goes on being enabled until it
\* returns, it shows every typewriter prefix of its text before the flicker
\* begins, at least one flicker frame, and it returns with the stable frame
\* of the text itself.
C12_StopDoesNotInterruptRender ==
  aStopAt # "none" =>
    /\ aPhase = "typewriter" => ENABLED TypewriterStep
    /\ aPhase = "flicker" => ENABLED FlickerStep
    /\ aPhase \in {"flicker", "returned"} =>
         /\ Len(aTyped) = Len(aText)
         /\ \A i \in 1..Len(aText) : aTyped[i] = SubSeq(aText, 1, i)
         /\ aFlickers >= 1
    /\ aPhase = "returned" =>
         /\ aShown.text = aText
         /\ aShown.hold
    /\ aStopAt = "flicker" => aPhase \in {"flicker", "returned"}

\* A call whose caller was stopped after the first typewriter frame of a
\* two-character text has returned.
C12_Witness ==
  /\ aStopAt = "typewriter"
  /\ aPhase = "returned"
  /\ aText = <<"a", "Z">>
  /\ aFlickers >= 2

\* C13: a loop's fetches are separated by exactly one poll-interval sleep.
\* A fetch other than the first is initiated from the poll-interval sleep;
\* the sleep is entered from the tick body (composer cycle or retry notice)
\* and left for the next fetch or for the return; the tick body is entered
\* from the fetch alone; and a pending fetch is settled by one response,
\* which leads to the first card or, if it failed, to the retry notice,
\* never to a second request.
C13_OneWaitBetweenFetches ==
  [][\A l \in Loops :
       /\ FetchInitiated(l) => pc[l] \in {"welcome", "pollSleep"}
       /\ (pc[l] = "fetch" /\ pc'[l] # "fetch") =>
            /\ lastResp'[l] \in Responses
            /\ pc'[l] = IF FailedFetch(lastResp'[l])
                        THEN "retryAnim" ELSE "dashAnim"
       /\ (pc'[l] \in TickPcs /\ pc[l] \notin TickPcs) => pc[l] = "fetch"
       /\ (pc'[l] = "pollSleep" /\ pc[l] # "pollSleep") => pc[l] \in TickPcs
       /\ (pc[l] = "pollSleep" /\ pc'[l] # "pollSleep") =>
            pc'[l] \in {"fetch", "done"}]_vars

\* Two loops are in the poll-interval sleep, one after a tick whose fetch
\* failed and one after a tick whose fetch succeeded.
C13_Witness ==
  \E l, k \in Loops :
    /\ pc[l] = "pollSleep" /\ rendered[l] = <<"retry">>
    /\ pc[k] = "pollSleep" /\ nav[k] # NoNav

\* The locals of loop l.
LoopLocals(l) ==
  <<sid[l], stopped[l], pc[l], idx[l], nav[l], frame[l], rendered[l]>>

\* C14: sessions with different ids do not affect each other. A step that
\* removes the registry entry of s (an onStop for s) leaves the entry of
\* every other id and the flag and locals of every loop of another id as
\* they were; a flag is set only by the stop of its own loop's id, while
\* that id's entry is its own; a step of one loop changes no other loop's
\* locals and, once started, nothing of the registry; and a loop that has
\* not returned always has its next step.
C14_SessionsIndependent ==
  /\ [](\A l \in Loops : Live(l) => ENABLED LoopStep(l, Responses))
  /\ [][/\ \A s \in SessionIds :
             (sessionStopper[s] # 0 /\ sessionStopper'[s] = 0) =>
               /\ \A t \in SessionIds \ {s} :
                    sessionStopper'[t] = sessionStopper[t]
               /\ \A l \in Loops :
                    sid[l] # s => LoopLocals(l)' = LoopLocals(l)
        /\ \A l \in Loops :
             (stopped'[l] /\ ~stopped[l]) =>
               /\ sessionStopper[sid[l]] = l
               /\ sessionStopper'[sid[l]] = 0
        /\ \A l \in Loops :
             pc'[l] # pc[l] =>
               /\ \A k \in Loops \ {l} : LoopLocals(k)' = LoopLocals(k)
               /\ pc[l] # "unborn" =>
                    /\ sessionStopper' = sessionStopper
                    /\ stopped' = stopped]_vars

\* The loop of one session has been stopped and has returned, its entry
\* gone, while the loop of another session, registered and not stopped,
\* sleeps the poll interval after a composer cycle.
C14_Witness ==
  \E l, k \in Loops :
    /\ sid[l] # sid[k]
    /\ stopped[l] /\ pc[l] = "done" /\ sessionStopper[sid[l]] = 0
    /\ ~stopped[k] /\ pc[k] = "pollSleep" /\ nav[k] # NoNav
    /\ sessionStopper[sid[k]] = k

\* Loop l has exited: its onSession has returned or rejected.
Exited(l) == pc[l] \in {"done", "failed"}

\* C15: every flag the registry holds belongs to a loop that has not
\* exited; a loop that has exited, by whatever path, has no entry left.
C15_RegistryHoldsLiveLoops ==
  \A s \in SessionIds :
    sessionStopper[s] # 0 => ~Exited(sessionStopper[s])

\* Loop l begins a card in this step: the card's first frame is shown.
CardBegins(l) ==
  /\ pc'[l] \in TickPcs
  /\ Len(rendered'[l]) = Len(rendered[l]) + 1

\* C16: the cards of a cycle do not overlap. A loop has an animation in
\* flight (frames shown, the stable frame still to come) exactly while it
\* is suspended in that animation's call; a card begins either in the step
\* in which the call of the card before it returns, its stable frame shown,
\* or from a pause or a settled fetch, with the frame shown last a stable
\* one; and between the return of one call and the next card no frame is
\* shown.
C16_CardsDoNotOverlap ==
  /\ [](\A l \in Loops :
          /\ pc[l] \in AnimPcs <=> frame[l] = "typewriter"
          /\ (pc[l] \in SleepPcs \cup {"fetch", "done"}) => frame[l] = "stable")
  /\ [][\A l \in Loops :
          /\ CardBegins(l) =>
               /\ pc[l] \in AnimPcs \/ frame[l] = "stable"
               /\ frame'[l] = "typewriter"
               /\ pc'[l] \in AnimPcs
          /\ (pc[l] \in AnimPcs /\ pc'[l] # pc[l] /\ ~CardBegins(l)) =>
               frame'[l] = "stable"
          /\ (pc[l] \in AnimPcs /\ idx'[l] # idx[l]) => CardBegins(l)]_vars

\* The arrival card has begun after all three dashboard cards, the
\* next-action card and all three danger alerts of its cycle.
C16_Witness ==
  \E l \in Loops :
    /\ pc[l] = "arrivalAnim"
    /\ rendered[l] = <<"speed", "eta", "remaining", "next",
                       "danger", "danger", "danger", "arrival">>

\* The value of a decimal digit.
DigitValue(c) == CHOOSE d \in 0..9 : Digits[d + 1] = c

\* s is the decimal numeral of a natural number, without a leading zero.
IsNatNumeral(s) ==
  /\ Len(s) >= 1
  /\ \A i \in 1..Len(s) : \E d \in 0..9 : Digits[d + 1] = s[i]
  /\ Len(s) > 1 => s[1] # "0"

\* The number a numeral stands for.
RECURSIVE ParseNat(_)
ParseNat(s) ==
  IF Len(s) = 1 THEN DigitValue(s[1])
  ELSE 10 * ParseNat(SubSeq(s, 1, Len(s) - 1)) + DigitValue(s[Len(s)])

\* s is the numeral of the integer k.
IsNumeralOf(s, k) ==
  IF k < 0
  THEN /\ Len(s) >= 2
       /\ s[1] = "-"
       /\ IsNatNumeral(Tail(s))
       /\ ParseNat(Tail(s)) = -k
  ELSE /\ IsNatNumeral(s)
       /\ ParseNat(s) = k

\* The integer nearest to n / 10, a half counting upwards.
Nearest(n) ==
  CHOOSE d \in ((n \div 10) - 1)..((n \div 10) + 1) :
    10 * d - 5 <= n /\ n < 10 * d + 5

\* The action labels as the claim displays them.
ActionLabel(a) ==
  CASE a = "turn-left" -> <<"T", "U", "R", "N", " ", "L", "E", "F", "T">>
    [] a = "turn-right" -> <<"T", "U", "R", "N", " ", "R", "I", "G", "H", "T">>
    [] a = "u-turn" -> <<"U", " ", "T", "U", "R", "N">>
    [] a = "straight" -> <<"S", "T", "R", "A", "I", "G", "H", "T">>

\* txt is the next-action text the claim gives for payload n.
NextTextAsClaimed(txt, n) ==
  IF n.nextAction.s = "arrived"
  THEN txt = <<"A", "r", "r", "i", "v", "e", "d">>
  ELSE LET lab == ActionLabel(n.nextAction.s) \o <<" ", "i", "n", " ">>
           k == Len(lab)
       IN /\ Len(txt) > k + 2
          /\ SubSeq(txt, 1, k) = lab
          /\ SubSeq(txt, Len(txt) - 1, Len(txt)) = <<" ", "m">>
          /\ IsNumeralOf(SubSeq(txt, k + 1, Len(txt) - 2),
                         Nearest(n.distanceToNextActionMeters.n))

\* cycleUI has built its texts.
Composed == cTexts.next # <<>>

\* C17, as the spec has it: the text of the next-action card is "Arrived",
\* or the upper-case label, " in ", the rounded distance and " m".
C17_NextCardTextAsStated ==
  Composed => NextTextAsClaimed(cTexts.next, cNav)

\* C17: the text of the next-action card is "Next: " followed by "Arrived"
\* when nextAction is arrived, and otherwise by the action label in upper
\* case with its hyphen replaced by a space, " in ", the distance to the
\* next action rounded to the nearest integer, and " m"; for turn-left at
\* 120 m it is "Next: TURN LEFT in 120 m".
C17_NextCardText ==
  Composed =>
    /\ Len(cTexts.next) > 6
    /\ SubSeq(cTexts.next, 1, 6) = <<"N", "e", "x", "t", ":", " ">>
    /\ NextTextAsClaimed(SubSeq(cTexts.next, 7, Len(cTexts.next)), cNav)
    /\ (cNav.nextAction.s = "turn-left"
          /\ cNav.distanceToNextActionMeters.n = 1200) =>
         cTexts.next = <<"N", "e", "x", "t", ":", " ", "T", "U", "R", "N", " ", "L", "E", "F", "T", " ", "i", "n", " ", "1", "2", "0", " ", "m">>

\* The text has been built for u-turn at 119.6 m, which rounds up to 120.
C17_Witness ==
  /\ cNav.nextAction.s = "u-turn"
  /\ cNav.distanceToNextActionMeters.n = 1196
  /\ cTexts.next = <<"N", "e", "x", "t", ":", " ", "U", " ", "T", "U", "R", "N", " ", "i", "n", " ", "1", "2", "0", " ", "m">>

\* The text of the ETA card for s whole seconds reads as m minutes.
EtaCardReads(txt, m) ==
  /\ Len(txt) > 9
  /\ SubSeq(txt, 1, 5) = <<"E", "T", "A", ":", " ">>
  /\ SubSeq(txt, Len(txt) - 3, Len(txt)) = <<" ", "m", "i", "n">>
  /\ IsNumeralOf(SubSeq(txt, 6, Len(txt) - 4), m)

\* C20: for every whole etaSeconds >= 0 the ETA card shows the smallest
\* integer m with 60 * m >= etaSeconds: 0 for 0, 1 for 1 and for 60, 2 for
\* 61, 10 for 600.
C20_EtaMinutesRoundedUp ==
  (Composed /\ cNav.etaSeconds.n >= 0 /\ cNav.etaSeconds.n % 10 = 0) =>
    LET secs == cNav.etaSeconds.n \div 10
        txt == cTexts.dashboard[2]
        m == CHOOSE k \in 0..secs :
               /\ 60 * k >= secs
               /\ \A j \in 0..secs : 60 * j >= secs => k <= j
    IN /\ EtaCardReads(txt, m)
       /\ secs = 0 => txt = <<"E", "T", "A", ":", " ", "0", " ", "m", "i", "n">>
       /\ secs \in {1, 60} => txt = <<"E", "T", "A", ":", " ", "1", " ", "m", "i", "n">>
       /\ secs = 61 => txt = <<"E", "T", "A", ":", " ", "2", " ", "m", "i", "n">>
       /\ secs = 600 => txt = <<"E", "T", "A", ":", " ", "1", "0", " ", "m", "i", "n">>

\* The texts have been built for an ETA of 61 seconds, one second past the
\* whole minute.
C20_Witness ==
  /\ Composed
  /\ cNav.etaSeconds.n = 610
  /\ cTexts.dashboard[2] = <<"E", "T", "A", ":", " ", "2", " ", "m", "i", "n">>

\* The characters of the flicker charset.
CharsetChars == { flickerCharset[j] : j \in 1..Len(flickerCharset) }

\* The charset characters the draws of IndexDraws select: the first and the
\* last.
DrawnChars == {"a", "*"}

\* The strings of the length of t that hold, at each position, t's
\* character or a drawn charset character, in every combination.
SubstitutionFrames(t) ==
  { s \in [1..Len(t) -> { t[i] : i \in 1..Len(t) } \cup DrawnChars] :
      \A i \in 1..Len(t) : s[i] = t[i] \/ s[i] \in DrawnChars }

\* C18: a flicker frame has the length of the text and holds, at each
\* position, the text's character or a character of the flicker charset;
\* and whatever the frame shown before, the frames the next tick can build
\* are the same: every combination of keeping or substituting each
\* character of the text.
C18_FlickerFrames ==
  aPhase = "flicker" =>
    /\ Len(aShown.text) = Len(aText)
    /\ \A i \in 1..Len(aText) :
         aShown.text[i] = aText[i] \/ aShown.text[i] \in CharsetChars
    /\ ~aShown.hold
    /\ DrawnChars \subseteq CharsetChars
    /\ FlickerFrames(aText) = SubstitutionFrames(aText)

\* Two or more flicker frames of a two-character text have been shown, the
\* last with its first character substituted and its second kept.
C18_Witness ==
  /\ aPhase = "flicker"
  /\ aFlickers >= 2
  /\ aText = <<"Z", "Z">>
  /\ aShown.text = <<"*", "Z">>

\* C19: a sink that throws while a frame is shown never makes a loop exit:
\* no onSession rejects, whether the failure falls in the welcome
\* animation, in a card of the composer cycle or in the retry notice.
C19_RenderFailureNonFatal ==
  \A l \in Loops : pc[l] # "failed"

\* How much of its run a loop at its present position has left if it starts
\* no further tick: 0 when it has returned, 1 in the welcome animation, 2 in
\* the poll-interval sleep, 3 in the last animation of a tick, and so on
\* back to the pending fetch.
WorkLeft(l) ==
  CASE pc[l] \in {"unborn", "done", "failed"} -> 0
    [] pc[l] = "welcome" -> 1
    [] pc[l] = "pollSleep" -> 2
    [] pc[l] \in {"arrivalAnim", "retryAnim"} -> 3
    [] pc[l] = "dangerPause" -> 4 + 2 * (alertBounceCount - 1 - idx[l])
    [] pc[l] = "dangerAnim" -> 5 + 2 * (alertBounceCount - 1 - idx[l])
    [] pc[l] = "nextAnim" -> 4 + 2 * alertBounceCount
    [] pc[l] = "dashPause" ->
         5 + 2 * alertBounceCount + 2 * (Len(dashboardCards) - idx[l])
    [] pc[l] = "dashAnim" ->
         6 + 2 * alertBounceCount + 2 * (Len(dashboardCards) - idx[l])
    [] pc[l] = "fetch" -> 6 + 2 * alertBounceCount + 2 * Len(dashboardCards)

\* Loop l takes a step.
Steps(l) == pc'[l] # pc[l] \/ idx'[l] # idx[l]

ProgramState ==
  <<sessionStopper, nLoops, sid, stopped, pc, idx, nav, frame, rendered,
    lastResp, flagAtSleep, animVars, textVars>>

\* C22: an onStop for an id that has no registry entry, never started or
\* already stopped, leaves the registry, every flag and every loop as they
\* are; and every onStop leaves its id without an entry, so that a second
\* onStop for the same id is such a call and adds nothing to the first.
C22_StopWithoutEntryIsNoOp ==
  [][\A s \in SessionIds :
       OnStop(s) =>
         /\ sessionStopper'[s] = 0
         /\ sessionStopper[s] = 0 => UNCHANGED ProgramState
         /\ sessionStopper[s] # 0 =>
              /\ stopped' = [stopped EXCEPT ![sessionStopper[s]] = TRUE]
              /\ \A t \in SessionIds \ {s} :
                   sessionStopper'[t] = sessionStopper[t]]_vars

\* onStop has run for the id of a loop that has not returned, the id has no
\* entry any more, and the other id has never been started: an onStop for
\* either id finds no entry.
C22_Witness ==
  /\ \A s \in SessionIds : sessionStopper[s] = 0
  /\ \E l \in Loops :
       /\ stopRan[l] /\ stopped[l] /\ pc[l] = "fetch"
       /\ \E s \in SessionIds : \A k \in Loops : sid[k] # s

\* C23: every start creates a flag of its own. The loop a start creates is
\* a new one with its flag unset, whatever stops ran for its id before, and
\* the start changes no other loop's flag; a flag that is set stays set,
\* and its loop returns at its next loop check; a flag is set only by an
\* onStop that finds its own loop registered, and a loop whose flag is
\* unset begins a new tick at its loop check.
C23_FreshFlagPerStart ==
  [][\A l \in Loops :
       /\ Started(l) =>
            /\ ~stopped'[l]
            /\ \A k \in Loops \ {l} : stopped'[k] = stopped[k]
       /\ stopped[l] => stopped'[l]
       /\ (stopped'[l] /\ ~stopped[l]) =>
            /\ pc[l] # "unborn"
            /\ sessionStopper[sid[l]] = l
       /\ (pc[l] \in {"welcome", "pollSleep"} /\ Steps(l)) =>
            pc'[l] = IF stopped[l] THEN "done" ELSE "fetch"]_vars

\* An id was started, stopped and started again: its first loop, a stop
\* having run for it, has returned with its flag set, and its second loop,
\* for which no stop has run, is registered, has its flag unset and sleeps
\* the poll interval after a composer cycle.
C23_Witness ==
  \E l, k \in Loops :
    /\ l # k /\ sid[l] = sid[k]
    /\ stopRan[l] /\ stopped[l] /\ pc[l] = "done"
    /\ ~stopRan[k] /\ ~stopped[k] /\ sessionStopper[sid[k]] = k
    /\ pc[k] = "pollSleep" /\ nav[k] # NoNav

====
